---- MODULE Spec2Model ----
(***************************************************************************)
(* Highlight state of algomanim's linear visual structures (Array, String) *)
(* and its persistence across update_value.                                *)
(*                                                                         *)
(* An instance is a record of the fields the highlight code reads and      *)
(* writes.  The three colour dictionaries are Python objects: an instance  *)
(* holds references to them, and the dictionaries live in `heap`, so that  *)
(* two instances holding the same dictionary is a state the model can be   *)
(* in.  The mobjects are modelled by what is painted on them:              *)
(* containers_mob[p] is the fill colour of slot p, pointers_top[p] and     *)
(* pointers_bottom[p] the colours of the three triangles of slot p.        *)
(* Slots are numbered from 0 as in the source.                             *)
(*                                                                         *)
(* Next to the structure the module models the other classes of the        *)
(* package, each in a variable and a specification of its own: CodeBlock,  *)
(* CodeGenerator, AlgoScene.sound_block, the list a caller passes to an    *)
(* Array, and LinkedList.                                                  *)
(***************************************************************************)
EXTENDS Integers, Sequences, FiniteSets, TLC

VARIABLES self, new_group, heap, last, code_block,
          generator, sound, passed, linked_list

vars == <<self, new_group, heap, last, code_block,
          generator, sound, passed, linked_list>>

\* what lives next to the structure and its code block: a CodeGenerator, a
\* sound_block of the scene, the list object the caller passed last, and a
\* LinkedList
aside == <<generator, sound, passed, linked_list>>

-----------------------------------------------------------------------------
(* Bounds of the model                                                     *)

\* longest data the caller passes
MaxLen == 3

\* longest idx_list the caller passes
MaxListLen == 4

\* most code lines and most pre-code lines of a code block
MaxCodeLines == 2
MaxPrecodeLines == 3

\* most indices in one highlight call
MaxHighlighted == 2

-----------------------------------------------------------------------------
(* Program constants                                                       *)

\* linear_container.py:242  `if not 1 <= len(idx_list) <= 3`
MinArity == 1
MaxArity == 3

\* linear_container.py:76  `if pos not in (0, 1)`
TOP == 0
BOTTOM == 1

ArityMsg == "idx_list must contain between 1 and 3 indices"
PosMsg == "pos must be 0 (top) or 1 (bottom)"
NoError == ""

\* default arguments of pointers(): color_1, color_2, color_3
PointerColors == [color_1 |-> "RED", color_2 |-> "BLUE", color_3 |-> "GREEN"]

\* the highlight colours an instance is constructed with
HighlightColors ==
    [color_1 |-> "RED", color_2 |-> "BLUE", color_3 |-> "GREEN",
     color_123 |-> "BLACK", color_12 |-> "PURPLE", color_13 |-> "YELLOW_E",
     color_23 |-> "TEAL", color_containers_with_value |-> "BLACK"]

\* default of the fill_color parameter of each constructor
CtorFillColor(kind) == IF kind = "Array" THEN "DARK_GRAY" ELSE "GRAY"

\* default of the bg_color parameter of each constructor
CtorBgColor(kind) == "DARK_GRAY"

-----------------------------------------------------------------------------
(* Inputs                                                                  *)

Values == {0, 5}

\* the data a caller passes: [], [0], [0,5], [0,5,0], ...
DataOfLen(n) == [p \in 1..n |-> IF p % 2 = 1 THEN 0 ELSE 5]
Datas == {DataOfLen(n) : n \in 0..MaxLen}

\* values a caller looks for: one that is in every non-empty data, one in none
QueryValues == {0, 9}

\* indices a caller passes: negative, in range, and past the last slot
Indices == -1..MaxLen

\* idx_list of every valid arity over Indices, and of the invalid arities
IdxLists ==
    UNION {[1..a -> Indices] : a \in MinArity..MaxArity}
        \cup {[p \in 1..a |-> 0] : a \in {0} \cup (MaxArity + 1)..MaxListLen}

\* the idx_lists of the life-cycle specification: the invalid arities, and
\* for each valid arity one list, with indices that are in range or past the
\* last slot depending on the data
LifeLists ==
    {l \in IdxLists : Len(l) \notin MinArity..MaxArity}
        \cup {<<1>>, <<0, 1>>, <<MaxLen, 1, 1>>}

\* pos arguments a caller passes: the two sides and two that are neither
Positions == -1..2

\* the fill_color the caller constructs the structure with
FillColors == {"GRAY"}

-----------------------------------------------------------------------------
(* Python values                                                           *)

\* {}
EmptyDict == [x \in {} |-> "none"]

\* d[k] = v
DictSet(d, k, v) == [x \in (DOMAIN d) \cup {k} |-> IF x = k THEN v ELSE d[x]]

\* truth value of a list or a str: non-empty
Truthy(d) == Len(d) > 0

\* a VGroup of n mobjects, each showing `shown`
Group(n, shown) == [p \in 0..(n - 1) |-> shown]

\* the address of a new object: any address not in use
Fresh(h) ==
    CHOOSE id \in 1..(Cardinality(DOMAIN h) + 1) :
        id \notin DOMAIN h /\ \A j \in 1..(id - 1) : j \in DOMAIN h

-----------------------------------------------------------------------------
(* LinearContainerStructure: painting                                      *)

\* _apply_containers_colors as it would be without the `if self._data` test
ApplyContainersColors_IgnoresData(inst, h) ==
    [i \in DOMAIN inst.containers_mob |->
        IF i \in DOMAIN h[inst.containers_colors]
        THEN h[inst.containers_colors][i]
        ELSE inst.fill_color]

\* _apply_containers_colors: the fills of inst's containers after the call
ApplyContainersColors(inst, h) ==
    [i \in DOMAIN inst.containers_mob |->
        IF i \in DOMAIN h[inst.containers_colors]
        THEN IF Truthy(inst.data)
             THEN h[inst.containers_colors][i]
             ELSE inst.fill_color
        ELSE inst.fill_color]

\* the loop as it would be if it ran over the keys of the dictionary as well
\* as over the triples
ApplyPointersGroup_OverKeys(pointers, colors_dict, d, bg) ==
    [i \in (DOMAIN pointers) \cup (DOMAIN colors_dict) |->
        IF i \in DOMAIN colors_dict
        THEN IF Truthy(d)
             THEN [j \in 1..3 |-> colors_dict[i][j]]
             ELSE <<bg, bg, bg>>
        ELSE <<bg, bg, bg>>]

\* the loop of _apply_pointers_colors over one VGroup of triangle triples
ApplyPointersGroup(pointers, colors_dict, d, bg) ==
    [i \in DOMAIN pointers |->
        IF i \in DOMAIN colors_dict
        THEN IF Truthy(d)
             THEN [j \in 1..3 |-> colors_dict[i][j]]
             ELSE <<bg, bg, bg>>
        ELSE <<bg, bg, bg>>]

\* _apply_pointers_colors(pos), pos already checked: inst after the call
ApplyPointersColors(inst, pos, h) ==
    IF pos = TOP
    THEN [inst EXCEPT !.pointers_top =
            ApplyPointersGroup(inst.pointers_top, h[inst.top_pointers_colors],
                               inst.data, inst.bg_color)]
    ELSE [inst EXCEPT !.pointers_bottom =
            ApplyPointersGroup(inst.pointers_bottom, h[inst.bottom_pointers_colors],
                               inst.data, inst.bg_color)]

\* the three paintings as they would be if a slot that already shows its
\* stored colour were given the fill colour
Paint_Toggling(inst, h) ==
    LET shown == inst.containers_mob
        painted == ApplyContainersColors(inst, h)
        g1 == [inst EXCEPT !.containers_mob =
                  [i \in DOMAIN painted |->
                      IF i \in DOMAIN h[inst.containers_colors] /\ shown[i] = painted[i]
                      THEN inst.fill_color ELSE painted[i]]]
    IN  ApplyPointersColors(ApplyPointersColors(g1, TOP, h), BOTTOM, h)

\* _apply_containers_colors(), _apply_pointers_colors(0) and
\* _apply_pointers_colors(1) in a row: inst after the calls
Paint(inst, h) ==
    LET g1 == [inst EXCEPT !.containers_mob = ApplyContainersColors(inst, h)]
    IN  ApplyPointersColors(ApplyPointersColors(g1, TOP, h), BOTTOM, h)

-----------------------------------------------------------------------------
(* LinearContainerStructure: filling the store                             *)

\* the chain for two indices as it would be without its `idx == i == j` branch
ContainerColor2_NoCollision(idx, i, j, c) ==
    IF idx = i THEN c.color_1
    ELSE c.color_2

\* the if/elif chain of highlight_containers for two indices
ContainerColor2(idx, i, j, c) ==
    IF idx = i /\ i = j THEN c.color_12
    ELSE IF idx = i THEN c.color_1
    ELSE c.color_2

\* the chain for three indices as it would be with the colours of the
\* `idx == i == k` and `idx == k == j` branches exchanged
ContainerColor3_Swapped(idx, i, j, k, c) ==
    IF idx = i /\ i = j /\ j = k THEN c.color_123
    ELSE IF idx = i /\ i = j THEN c.color_12
    ELSE IF idx = i /\ i = k THEN c.color_23
    ELSE IF idx = k /\ k = j THEN c.color_13
    ELSE IF idx = i THEN c.color_1
    ELSE IF idx = j THEN c.color_2
    ELSE c.color_3

\* the if/elif chain of highlight_containers for three indices
ContainerColor3(idx, i, j, k, c) ==
    IF idx = i /\ i = j /\ j = k THEN c.color_123
    ELSE IF idx = i /\ i = j THEN c.color_12
    ELSE IF idx = i /\ i = k THEN c.color_13
    ELSE IF idx = k /\ k = j THEN c.color_23
    ELSE IF idx = i THEN c.color_1
    ELSE IF idx = j THEN c.color_2
    ELSE c.color_3

\* highlight_containers, "fill self._containers_colors": the dictionary
\* built from idx_list on a structure whose containers_mob has n members
ContainersFill(idx_list, n, c) ==
    IF Len(idx_list) = 1
    THEN DictSet(EmptyDict, idx_list[1], c.color_1)
    ELSE IF Len(idx_list) = 2
    THEN [idx \in {x \in 0..(n - 1) : x = idx_list[1] \/ x = idx_list[2]} |->
            ContainerColor2(idx, idx_list[1], idx_list[2], c)]
    ELSE [idx \in {x \in 0..(n - 1) :
                    x = idx_list[1] \/ x = idx_list[2] \/ x = idx_list[3]} |->
            ContainerColor3(idx, idx_list[1], idx_list[2], idx_list[3], c)]

\* the chain for two indices as it would be without its `idx == i == j`
\* branch and with the test of j first: the second cursor hides the first
PointerColors2_SecondHides(idx, i, j, bg, c) ==
    IF idx = j THEN <<bg, c.color_2, bg>>
    ELSE <<bg, c.color_1, bg>>

\* the if/elif chain of pointers for two indices
PointerColors2(idx, i, j, bg, c) ==
    IF idx = i /\ i = j THEN <<c.color_1, bg, c.color_2>>
    ELSE IF idx = i THEN <<bg, c.color_1, bg>>
    ELSE <<bg, c.color_2, bg>>

\* the chain for three indices as it would be if two colliding cursors took
\* the left and the middle triangle
PointerColors3_LeftMiddle(idx, i, j, k, bg, c) ==
    IF idx = i /\ i = j /\ j = k THEN <<c.color_1, c.color_2, c.color_3>>
    ELSE IF idx = i /\ i = j THEN <<c.color_1, c.color_2, bg>>
    ELSE IF idx = i /\ i = k THEN <<c.color_1, c.color_3, bg>>
    ELSE IF idx = k /\ k = j THEN <<c.color_2, c.color_3, bg>>
    ELSE IF idx = i THEN <<bg, c.color_1, bg>>
    ELSE IF idx = j THEN <<bg, c.color_2, bg>>
    ELSE <<bg, c.color_3, bg>>

\* the if/elif chain of pointers for three indices
PointerColors3(idx, i, j, k, bg, c) ==
    IF idx = i /\ i = j /\ j = k THEN <<c.color_1, c.color_2, c.color_3>>
    ELSE IF idx = i /\ i = j THEN <<c.color_1, bg, c.color_2>>
    ELSE IF idx = i /\ i = k THEN <<c.color_1, bg, c.color_3>>
    ELSE IF idx = k /\ k = j THEN <<c.color_2, bg, c.color_3>>
    ELSE IF idx = i THEN <<bg, c.color_1, bg>>
    ELSE IF idx = j THEN <<bg, c.color_2, bg>>
    ELSE <<bg, c.color_3, bg>>

\* pointers, "fill store": the dictionary built from idx_list on a
\* structure whose containers_mob has n members
PointersFill(idx_list, n, bg, c) ==
    IF Len(idx_list) = 1
    THEN DictSet(EmptyDict, idx_list[1], <<bg, c.color_1, bg>>)
    ELSE IF Len(idx_list) = 2
    THEN [idx \in {x \in 0..(n - 1) : x = idx_list[1] \/ x = idx_list[2]} |->
            PointerColors2(idx, idx_list[1], idx_list[2], bg, c)]
    ELSE [idx \in {x \in 0..(n - 1) :
                    x = idx_list[1] \/ x = idx_list[2] \/ x = idx_list[3]} |->
            PointerColors3(idx, idx_list[1], idx_list[2], idx_list[3], bg, c)]

\* "fill store" as it would be with a `break` after the first hit
ContainersWithValueFill_FirstHit(d, val, color) ==
    LET hits == {x \in 0..(Len(d) - 1) : d[x + 1] = val}
    IN  [idx \in {x \in hits : \A y \in hits : x <= y} |-> color]

\* highlight_containers_with_value, "fill store"
ContainersWithValueFill(d, val, color) ==
    [idx \in {x \in 0..(Len(d) - 1) : d[x + 1] = val} |-> color]

\* pointers_on_value, "fill store"
PointersOnValueFill(d, val, bg, color) ==
    [idx \in {x \in 0..(Len(d) - 1) : d[x + 1] = val} |-> <<bg, color, bg>>]

-----------------------------------------------------------------------------
(* Construction                                                            *)

\* len(self._containers_mob) as it would be if every structure had the
\* single cell of the empty one
SlotCount_SingleCell(value) == 1

\* len(self._containers_mob) after __init__: one cell per value; for empty
\* data _create_empty_array / _create_empty_string put a single Rectangle
\* (Square) there, and iterating a mobject that has points yields itself
SlotCount(value) == IF Truthy(value) THEN Len(value) ELSE 1

\* Array.__init__ / String.__init__ : the new instance and the heap holding
\* its three new dictionaries
NewInstance(kind, value, fill, bg, h) ==
    LET a == Fresh(h)
        h1 == h @@ (a :> EmptyDict)
        b == Fresh(h1)
        h2 == h1 @@ (b :> EmptyDict)
        c == Fresh(h2)
        h3 == h2 @@ (c :> EmptyDict)
    IN  [inst |->
            [kind |-> kind,
             data |-> value,
             fill_color |-> fill,
             bg_color |-> bg,
             containers_colors |-> a,
             top_pointers_colors |-> b,
             bottom_pointers_colors |-> c,
             containers_mob |-> Group(SlotCount(value), fill),
             pointers_top |-> Group(Len(value), <<bg, bg, bg>>),
             pointers_bottom |-> Group(Len(value), <<bg, bg, bg>>)],
         heap |-> h3]

-----------------------------------------------------------------------------
(* LinearContainerStructure: the public methods, as functions of the       *)
(* instance and the heap.  Each yields the instance and the heap after     *)
(* the call and the message of the ValueError it raised ("" for none).     *)

Outcome(inst, h, msg) == [inst |-> inst, heap |-> h, raised |-> msg]

\* number of members of inst._containers_mob
NumContainers(inst) == Cardinality(DOMAIN inst.containers_mob)

\* the same without `self._containers_colors = {}`: d is written into the
\* dictionary self already has
BindContainers_Merging(inst, d, h) ==
    LET a == Fresh(h)
        old == h[inst.containers_colors]
    IN  [inst |-> [inst EXCEPT !.containers_colors = a],
         heap |-> h @@ (a :> [k \in (DOMAIN old) \cup (DOMAIN d) |->
                                 IF k \in DOMAIN d THEN d[k] ELSE old[k]])]

\* self._containers_colors = {} followed by filling it with d
BindContainers(inst, d, h) ==
    LET a == Fresh(h)
    IN  [inst |-> [inst EXCEPT !.containers_colors = a], heap |-> h @@ (a :> d)]

\* the same as it would be if both sides were bound to the new dictionary
BindPointers_BothSides(inst, pos, d, h) ==
    LET a == Fresh(h)
    IN  [inst |-> [inst EXCEPT !.top_pointers_colors = a,
                               !.bottom_pointers_colors = a],
         heap |-> h @@ (a :> d)]

\* self._top_pointers_colors = {} or self._bottom_pointers_colors = {},
\* followed by filling it with d
BindPointers(inst, pos, d, h) ==
    LET a == Fresh(h)
    IN  [inst |-> IF pos = TOP
                  THEN [inst EXCEPT !.top_pointers_colors = a]
                  ELSE [inst EXCEPT !.bottom_pointers_colors = a],
         heap |-> h @@ (a :> d)]

\* clear_containers_highlights as it would be if it deleted only the entries
\* of the slots the structure has
clear_containers_highlights_KeepsDormant(inst, h) ==
    LET old == h[inst.containers_colors]
        b == BindContainers(inst,
                 [k \in (DOMAIN old) \ (DOMAIN inst.containers_mob) |-> old[k]], h)
    IN  Outcome([b.inst EXCEPT !.containers_mob = ApplyContainersColors(b.inst, b.heap)],
                b.heap, NoError)

\* clear_containers_highlights
clear_containers_highlights(inst, h) ==
    LET b == BindContainers(inst, EmptyDict, h)
    IN  Outcome([b.inst EXCEPT !.containers_mob = ApplyContainersColors(b.inst, b.heap)],
                b.heap, NoError)

\* clear_pointers_highlights
clear_pointers_highlights(inst, pos, h) ==
    IF pos \notin {TOP, BOTTOM}
    THEN Outcome(inst, h, PosMsg)
    ELSE LET b == BindPointers(inst, pos, EmptyDict, h)
         IN  Outcome(ApplyPointersColors(b.inst, pos, b.heap), b.heap, NoError)

\* highlight_containers, called with the default colours
highlight_containers(inst, idx_list, h) ==
    IF ~(MinArity <= Len(idx_list) /\ Len(idx_list) <= MaxArity)
    THEN Outcome(inst, h, ArityMsg)
    ELSE LET b == BindContainers(inst,
                      ContainersFill(idx_list, NumContainers(inst), HighlightColors), h)
         IN  IF ~Truthy(b.inst.data)
             THEN Outcome(b.inst, b.heap, NoError)
             ELSE Outcome([b.inst EXCEPT !.containers_mob =
                              ApplyContainersColors(b.inst, b.heap)],
                          b.heap, NoError)

\* highlight_containers_with_value as it would be if it returned on empty
\* data before `self._containers_colors = {}`
highlight_containers_with_value_ReturnsEarly(inst, val, h) ==
    IF ~Truthy(inst.data)
    THEN Outcome(inst, h, NoError)
    ELSE LET b == BindContainers(inst,
                      ContainersWithValueFill(inst.data, val,
                          HighlightColors.color_containers_with_value), h)
         IN  Outcome([b.inst EXCEPT !.containers_mob =
                         ApplyContainersColors(b.inst, b.heap)],
                     b.heap, NoError)

\* highlight_containers_with_value, called with the default colour
highlight_containers_with_value(inst, val, h) ==
    IF ~Truthy(inst.data)
    THEN LET b == BindContainers(inst, EmptyDict, h)
         IN  Outcome(b.inst, b.heap, NoError)
    ELSE LET b == BindContainers(inst,
                      ContainersWithValueFill(inst.data, val,
                          HighlightColors.color_containers_with_value), h)
         IN  Outcome([b.inst EXCEPT !.containers_mob =
                         ApplyContainersColors(b.inst, b.heap)],
                     b.heap, NoError)

\* pointers as it would be if it emptied the top dictionary before its checks
pointers_ClearsBeforeChecks(inst, idx_list, pos, h) ==
    LET b == BindPointers(inst, TOP, EmptyDict, h)
    IN  IF ~(MinArity <= Len(idx_list) /\ Len(idx_list) <= MaxArity)
        THEN Outcome(b.inst, b.heap, ArityMsg)
        ELSE IF pos \notin {TOP, BOTTOM}
        THEN Outcome(b.inst, b.heap, PosMsg)
        ELSE LET f == BindPointers(b.inst, pos,
                          PointersFill(idx_list, NumContainers(inst), inst.bg_color,
                                       PointerColors), b.heap)
             IN  IF ~Truthy(f.inst.data)
                 THEN Outcome(f.inst, f.heap, NoError)
                 ELSE Outcome(ApplyPointersColors(f.inst, pos, f.heap), f.heap, NoError)

\* pointers, called with the default colours
pointers(inst, idx_list, pos, h) ==
    IF ~(MinArity <= Len(idx_list) /\ Len(idx_list) <= MaxArity)
    THEN Outcome(inst, h, ArityMsg)
    ELSE IF pos \notin {TOP, BOTTOM}
    THEN Outcome(inst, h, PosMsg)
    ELSE LET b == BindPointers(inst, pos,
                      PointersFill(idx_list, NumContainers(inst), inst.bg_color,
                                   PointerColors), h)
         IN  IF ~Truthy(b.inst.data)
             THEN Outcome(b.inst, b.heap, NoError)
             ELSE Outcome(ApplyPointersColors(b.inst, pos, b.heap), b.heap, NoError)

\* pointers_on_value as it would be if it tested pos only after the
\* dictionaries are emptied (`if pos == 0 ... else ...`)
pointers_on_value_ChecksLate(inst, val, pos, h) ==
    LET b == BindPointers(inst, pos, EmptyDict, h)
    IN  IF pos \notin {TOP, BOTTOM}
        THEN Outcome(b.inst, b.heap, PosMsg)
        ELSE IF ~Truthy(inst.data)
        THEN Outcome(b.inst, b.heap, NoError)
        ELSE LET f == BindPointers(inst, pos,
                          PointersOnValueFill(inst.data, val, inst.bg_color,
                              HighlightColors.color_containers_with_value), h)
             IN  Outcome(ApplyPointersColors(f.inst, pos, f.heap), f.heap, NoError)

\* pointers_on_value, called with the default colour
pointers_on_value(inst, val, pos, h) ==
    IF pos \notin {TOP, BOTTOM}
    THEN Outcome(inst, h, PosMsg)
    ELSE IF ~Truthy(inst.data)
    THEN LET b == BindPointers(inst, pos, EmptyDict, h)
         IN  Outcome(b.inst, b.heap, NoError)
    ELSE LET b == BindPointers(inst, pos,
                      PointersOnValueFill(inst.data, val, inst.bg_color,
                          HighlightColors.color_containers_with_value), h)
         IN  Outcome(ApplyPointersColors(b.inst, pos, b.heap), b.heap, NoError)

-----------------------------------------------------------------------------
(* Data replacement                                                        *)

\* _save_highlights_states: the three dictionaries themselves, not copies
SaveHighlightsStates(inst) ==
    [containers_colors |-> inst.containers_colors,
     top_pointers_colors |-> inst.top_pointers_colors,
     bottom_pointers_colors |-> inst.bottom_pointers_colors]

\* _preserve_highlights_states as it would be if it deleted from the saved
\* dictionaries the keys that are not slots of new_group
PreserveHighlightsStates_Pruning(group, status, h) ==
    LET Pruned(d) == [k \in (DOMAIN d) \cap (DOMAIN group.containers_mob) |-> d[k]]
        h1 == [id \in DOMAIN h |->
                IF id \in {status.containers_colors, status.top_pointers_colors,
                           status.bottom_pointers_colors}
                THEN Pruned(h[id]) ELSE h[id]]
        g1 == [group EXCEPT !.containers_colors = status.containers_colors,
                            !.top_pointers_colors = status.top_pointers_colors,
                            !.bottom_pointers_colors = status.bottom_pointers_colors]
        g2 == [g1 EXCEPT !.containers_mob = ApplyContainersColors(g1, h1)]
        g3 == ApplyPointersColors(g2, TOP, h1)
        g4 == ApplyPointersColors(g3, BOTTOM, h1)
    IN  [inst |-> g4, heap |-> h1]

\* _preserve_highlights_states: new_group takes the saved dictionaries and
\* paints its own mobjects from them
PreserveHighlightsStates(group, status, h) ==
    LET g1 == [group EXCEPT !.containers_colors = status.containers_colors,
                            !.top_pointers_colors = status.top_pointers_colors,
                            !.bottom_pointers_colors = status.bottom_pointers_colors]
        g2 == [g1 EXCEPT !.containers_mob = ApplyContainersColors(g1, h)]
        g3 == ApplyPointersColors(g2, TOP, h)
        g4 == ApplyPointersColors(g3, BOTTOM, h)
    IN  [inst |-> g4, heap |-> h]

\* _update_internal_state as it would be if it kept the old containers
UpdateInternalState_KeepsContainers(inst, new_value, group) ==
    [inst EXCEPT !.data = new_value,
                 !.containers_mob =
                     [p \in DOMAIN group.containers_mob |->
                         IF p \in DOMAIN inst.containers_mob
                         THEN inst.containers_mob[p] ELSE inst.fill_color],
                 !.pointers_top = group.pointers_top,
                 !.pointers_bottom = group.pointers_bottom]

\* _update_internal_state: self takes the data and the mobjects of new_group
UpdateInternalState(inst, new_value, group) ==
    [inst EXCEPT !.data = new_value,
                 !.containers_mob = group.containers_mob,
                 !.pointers_top = group.pointers_top,
                 !.pointers_bottom = group.pointers_bottom]

\* the fill_color update_value hands to the constructor of new_group:
\* String passes its own, Array passes none and gets the default
NewGroupFillColor(inst) ==
    IF inst.kind = "String" THEN inst.fill_color ELSE CtorFillColor(inst.kind)

\* the bg_color update_value hands to the constructor of new_group
NewGroupBgColor(inst) == inst.bg_color

\* the calls update_value makes on the scene
SceneCalls(animate) == IF animate THEN <<"play">> ELSE <<"remove", "add">>

\* update_value as it would be without its first test
update_value_NoEarlyReturn(inst, new_value, animate, h) ==
    LET highlight_status == SaveHighlightsStates(inst)
        built == NewInstance(inst.kind, new_value, NewGroupFillColor(inst),
                             NewGroupBgColor(inst), h)
        kept == PreserveHighlightsStates(built.inst, highlight_status, built.heap)
    IN  [inst |-> UpdateInternalState(inst, new_value, kept.inst),
         heap |-> kept.heap,
         group |-> <<kept.inst>>,
         scene |-> SceneCalls(animate)]

\* Array.update_value / String.update_value
update_value(inst, new_value, animate, h) ==
    IF ~Truthy(inst.data) /\ ~Truthy(new_value)
    THEN [inst |-> inst, heap |-> h, group |-> <<>>, scene |-> <<>>]
    ELSE LET highlight_status == SaveHighlightsStates(inst)
             built == NewInstance(inst.kind, new_value, NewGroupFillColor(inst),
                                  NewGroupBgColor(inst), h)
             kept == PreserveHighlightsStates(built.inst, highlight_status, built.heap)
         IN  [inst |-> UpdateInternalState(inst, new_value, kept.inst),
              heap |-> kept.heap,
              group |-> <<kept.inst>>,
              scene |-> SceneCalls(animate)]

-----------------------------------------------------------------------------
(* CodeBlock: ui/code_block.py, and the earlier class of the same name in  *)
(* algomanim.py.  A block is modelled by the text colour of each line, the *)
(* two lists of recorded background rectangles (TRUE for a rectangle,      *)
(* FALSE for None) and, per line, the number of its rectangles among the   *)
(* submobjects of the block.  Lines are numbered from 0 as in the source.  *)

\* defaults of text_color_regular and text_color_highlight
TextColorRegular == "WHITE"
TextColorHighlight == "YELLOW"

IndexErrorMsg == "list index out of range"

\* CodeBlock.__init__ with n_code code lines and n_pre pre-code lines.  In
\* ui/code_block.py _bg_rects_precode exists when there are pre-code lines
\* and has len(code_lines) entries; the class in algomanim.py has no such
\* list
NewCodeBlock(module, n_code, n_pre) ==
    [module |-> module,
     code_mobs |-> [k \in 0..(n_code - 1) |-> TextColorRegular],
     precode_mobs |-> [k \in 0..(n_pre - 1) |-> TextColorRegular],
     bg_rects_code |-> [k \in 0..(n_code - 1) |-> FALSE],
     bg_rects_precode |->
         [k \in 0..((IF module = "ui.code_block" /\ n_pre > 0 THEN n_code ELSE 0) - 1)
             |-> FALSE],
     group_code |-> [k \in 0..(n_code - 1) |-> 0],
     group_precode |-> [k \in 0..(n_pre - 1) |-> 0]]

\* k in indices
InTuple(k, indices) == \E x \in 1..Len(indices) : indices[x] = k

\* _highlight_block over one list of lines: the loop sets the colour of
\* line k and then reads rects_list[k], which raises IndexError at the first
\* k the list has no entry for; lines after it are not visited
HighlightBlock(mobs, rects, group, indices) ==
    LET missing == {k \in DOMAIN mobs : k \notin DOMAIN rects}
        stop == IF missing = {} THEN Cardinality(DOMAIN mobs)
                ELSE CHOOSE k \in missing : \A j \in missing : k <= j
        Wanted(k) == IF InTuple(k, indices) THEN TextColorHighlight
                     ELSE TextColorRegular
    IN  [mobs |-> [k \in DOMAIN mobs |-> IF k <= stop THEN Wanted(k) ELSE mobs[k]],
         rects |-> [k \in DOMAIN rects |->
                      IF k \in DOMAIN mobs /\ k < stop
                      THEN InTuple(k, indices) ELSE rects[k]],
         group |-> [k \in DOMAIN group |->
                      IF k \in DOMAIN rects /\ k < stop
                      THEN IF InTuple(k, indices) /\ ~rects[k] THEN group[k] + 1
                           ELSE IF ~InTuple(k, indices) /\ rects[k] THEN group[k] - 1
                           ELSE group[k]
                      ELSE group[k]],
         raised |-> IF missing = {} THEN NoError ELSE IndexErrorMsg]

\* _separate_indices: the indices of pre-code lines, and the indices of
\* code lines counted from the first code line
SeparateIndices(block, indices) ==
    LET len_precode_lines == Cardinality(DOMAIN block.precode_mobs)
        IsPre(idx) == idx \in 0..(len_precode_lines - 1)
        IsCode(idx) == idx >= len_precode_lines
        code == SelectSeq(indices, IsCode)
    IN  IF len_precode_lines > 0
        THEN [precode |-> SelectSeq(indices, IsPre),
              code |-> [x \in 1..Len(code) |-> code[x] - len_precode_lines]]
        ELSE [precode |-> <<>>, code |-> indices]

\* CodeBlock.highlight(*indices) of ui/code_block.py: the block after the
\* call and the message of the exception it raised
highlight(block, indices) ==
    LET sep == SeparateIndices(block, indices)
        c == HighlightBlock(block.code_mobs, block.bg_rects_code, block.group_code,
                            sep.code)
        b1 == [block EXCEPT !.code_mobs = c.mobs, !.bg_rects_code = c.rects,
                            !.group_code = c.group]
        q == HighlightBlock(block.precode_mobs, block.bg_rects_precode,
                            block.group_precode, sep.precode)
    IN  IF c.raised # NoError \/ DOMAIN block.precode_mobs = {}
        THEN [block |-> b1, raised |-> c.raised]
        ELSE [block |-> [b1 EXCEPT !.precode_mobs = q.mobs,
                                   !.bg_rects_precode = q.rects,
                                   !.group_precode = q.group],
              raised |-> q.raised]

\* CodeBlock.highlight_line(i) of algomanim.py: the code lines only
highlight_line(block, i) ==
    LET c == HighlightBlock(block.code_mobs, block.bg_rects_code, block.group_code,
                            <<i>>)
    IN  [block |-> [block EXCEPT !.code_mobs = c.mobs, !.bg_rects_code = c.rects,
                                 !.group_code = c.group],
         raised |-> c.raised]

\* the line indices and the index tuples a caller passes
LineIndices == -1..(MaxCodeLines + MaxPrecodeLines)
IndexTuples == UNION {[1..a -> LineIndices] : a \in 0..MaxHighlighted}

-----------------------------------------------------------------------------
(* CodeGenerator: core/code_generator.py.  A str is the sequence of its    *)
(* characters, the code is the sequence of its lines, and the text put on  *)
(* the clipboard is the sequence of the blocks it is joined from.          *)

KeyErrorName == "KeyError"
ValueErrorName == "ValueError"
IndexErrorName == "IndexError"

\* the keys of Config.commands_dict
CommandKeys == {<<"a">>, <<"u">>, <<"U">>, <<"p">>, <<"s">>}

\* s.lstrip(), s.rstrip(), s.strip()
RECURSIVE LStrip(_)
LStrip(s) == IF s = <<>> \/ s[1] # " " THEN s ELSE LStrip(Tail(s))

RECURSIVE RStrip(_)
RStrip(s) ==
    IF s = <<>> \/ s[Len(s)] # " " THEN s ELSE RStrip(SubSeq(s, 1, Len(s) - 1))

StrStrip(s) == RStrip(LStrip(s))

\* s.startswith(prefix)
StartsWith(s, prefix) ==
    Len(s) >= Len(prefix) /\ SubSeq(s, 1, Len(prefix)) = prefix

\* the places of the character sep in s
Places(s, sep) == {x \in 1..Len(s) : s[x] = sep}

\* s.split(sep) for a separator of one character
RECURSIVE Split(_, _)
Split(s, sep) ==
    IF Places(s, sep) = {} THEN <<s>>
    ELSE LET k == CHOOSE x \in Places(s, sep) : \A y \in Places(s, sep) : x <= y
         IN  <<SubSeq(s, 1, k - 1)>> \o Split(SubSeq(s, k + 1, Len(s)), sep)

\* s.split(sep, 1)
SplitOnce(s, sep) ==
    IF Places(s, sep) = {} THEN <<s>>
    ELSE LET k == CHOOSE x \in Places(s, sep) : \A y \in Places(s, sep) : x <= y
         IN  <<SubSeq(s, 1, k - 1), SubSeq(s, k + 1, Len(s))>>

\* s.rsplit(sep, 1)
RSplitOnce(s, sep) ==
    IF Places(s, sep) = {} THEN <<s>>
    ELSE LET k == CHOOSE x \in Places(s, sep) : \A y \in Places(s, sep) : x >= y
         IN  <<SubSeq(s, 1, k - 1), SubSeq(s, k + 1, Len(s))>>

\* re.search(r"=.$", line): the last character but one is "="
EndsWithCommand(line) == Len(line) >= 2 /\ line[Len(line) - 1] = "="

\* x in l
InList(x, l) == \E j \in 1..Len(l) : l[j] = x

\* one member of add_block_list
Block(kind, text, number, is_last) ==
    [kind |-> kind, text |-> text, number |-> number, is_last |-> is_last]

\* _get_command_pair for each command in turn: commands_dict[command]
\* raises KeyError at the first command that is not a key
RECURSIVE CommandPairs(_, _)
CommandPairs(commands, j) ==
    IF j > Len(commands) THEN [raised |-> NoError, blocks |-> <<>>]
    ELSE IF commands[j] \notin CommandKeys
         THEN [raised |-> KeyErrorName, blocks |-> <<>>]
         ELSE LET rest == CommandPairs(commands, j + 1)
              IN  [raised |-> rest.raised,
                   blocks |-> <<Block("command", commands[j], 0, j = Len(commands))>>
                                  \o rest.blocks]

\* the head block of a statement line
StatementBlocks(line, line_lstrip, line_number, inline_commands) ==
    LET Newline == IF inline_commands THEN <<>> ELSE <<Block("newline", <<>>, 0, FALSE)>>
    IN  IF StartsWith(line, <<"i", "f", " ">>)
        THEN <<Block("highlight_cycle", <<>>, line_number, ~inline_commands),
               Block("line", line, 0, FALSE),
               Block("comment", <<>>, 0, FALSE)>>
        ELSE IF StartsWith(line, <<"e", "l", "s", "e", " ">>)
                   \/ StartsWith(line, <<"e", "l", "i", "f", " ">>)
        THEN <<Block("line", line, 0, FALSE),
               Block("highlight_step", <<>>, line_number, ~inline_commands)>>
                 \o Newline
        ELSE IF StartsWith(line, <<"f", "o", "r", " ">>)
                   \/ StartsWith(line, <<"w", "h", "i", "l", "e", " ">>)
        THEN <<Block("line", line, 0, FALSE),
               Block("highlight_cycle", <<>>, line_number, FALSE),
               Block("custom", <<"i", "f">>, 0, FALSE),
               Block("command", <<"a">>, 0, FALSE),
               Block("command", <<"p">>, 0, ~inline_commands),
               Block("custom", <<"e", "l", "s", "e">>, 0, FALSE),
               Block("command", <<"U">>, 0, FALSE),
               Block("command", <<"s">>, 0, ~inline_commands)>>
                 \o Newline
        ELSE IF StartsWith(line_lstrip, <<"r", "e", "t", "u", "r", "n", " ">>)
        THEN <<Block("comment", line, 0, FALSE),
               Block("highlight_step", <<>>, line_number, FALSE),
               Block("return", <<>>, 0, FALSE)>>
                 \o Newline
        ELSE <<>>

\* the body of the loop of generate for one line of the code
GenerateLine(raw, line_number) ==
    LET line_lstrip == LStrip(raw)
        stripped == StrStrip(raw)
        inline_commands == EndsWithCommand(stripped)
        parts == RSplitOnce(stripped, " ")
        line == IF inline_commands THEN parts[1] ELSE stripped
        commands == IF inline_commands THEN Tail(Split(parts[2], "=")) ELSE <<>>
        statement_line ==
            \/ StartsWith(line_lstrip, <<"i", "f", " ">>)
            \/ StartsWith(line, <<"f", "o", "r">>)
            \/ StartsWith(line, <<"w", "h", "i", "l", "e">>)
            \/ StartsWith(line, <<"r", "e", "t", "u", "r", "n">>)
            \/ StartsWith(line, <<"e", "l", "s", "e">>)
            \/ StartsWith(line, <<"e", "l", "i", "f">>)
        sound_diff == inline_commands /\ InList(<<"u">>, commands)
        head == (IF sound_diff THEN <<Block("sound_diff", line, 0, FALSE)>> ELSE <<>>)
                    \o (IF statement_line
                        THEN StatementBlocks(line, line_lstrip, line_number,
                                             inline_commands)
                        ELSE <<Block("line", line, 0, FALSE),
                               Block("highlight_step", <<>>, line_number,
                                     ~inline_commands)>>)
        bottom == CommandPairs(commands, 1)
    IN  IF stripped = <<>> \/ stripped[1] = "#"
        THEN [raised |-> NoError, blocks |-> <<>>]
        ELSE IF inline_commands /\ Len(parts) < 2
        THEN [raised |-> ValueErrorName, blocks |-> <<>>]
        ELSE IF sound_diff /\ Len(SplitOnce(line, "=")) < 2
        THEN [raised |-> IndexErrorName, blocks |-> <<>>]
        ELSE IF ~inline_commands
        THEN [raised |-> NoError, blocks |-> head]
        ELSE [raised |-> bottom.raised,
              blocks |-> head \o bottom.blocks \o <<Block("newline", <<>>, 0, FALSE)>>]

\* self._code.strip().split("\n"): the lines, without the blank lines at
\* either end of the code; an all-blank code is one empty line
RECURSIVE DropBlankHead(_)
DropBlankHead(lines) ==
    IF lines = <<>> \/ StrStrip(lines[1]) # <<>> THEN lines
    ELSE DropBlankHead(Tail(lines))

RECURSIVE DropBlankTail(_)
DropBlankTail(lines) ==
    IF lines = <<>> \/ StrStrip(lines[Len(lines)]) # <<>> THEN lines
    ELSE DropBlankTail(SubSeq(lines, 1, Len(lines) - 1))

CodeLines(code) ==
    LET kept == DropBlankTail(DropBlankHead(code))
    IN  IF kept = <<>> THEN << <<>> >> ELSE kept

\* the loop of generate from line i on: the first exception ends it
RECURSIVE GenerateFrom(_, _)
GenerateFrom(code_lines, i) ==
    IF i > Len(code_lines) THEN [raised |-> NoError, blocks |-> <<>>]
    ELSE LET one == GenerateLine(code_lines[i], i - 1)
             rest == GenerateFrom(code_lines, i + 1)
         IN  IF one.raised # NoError THEN one
             ELSE [raised |-> rest.raised, blocks |-> one.blocks \o rest.blocks]

\* CodeGenerator(code).generate(): the name of the exception it raised and
\* what pyperclip.copy was given (nothing when it raised)
generate(code) ==
    LET r == GenerateFrom(CodeLines(code), 1)
    IN  [code |-> code, called |-> TRUE, raised |-> r.raised,
         clipboard |-> IF r.raised = NoError THEN r.blocks ELSE <<>>]

\* CodeGenerator(code)
NewCodeGenerator(code) ==
    [code |-> code, called |-> FALSE, raised |-> NoError, clipboard |-> <<>>]

\* the characters of the lines a caller writes, and the longest line
Characters == {"i", "f", " ", "=", "z", "u", "#"}
MaxLineLen == 4
Lines == UNION {[1..n -> Characters] : n \in 0..MaxLineLen}

\* the codes a caller passes: one line, or a plain line and one more
Codes == {<<l>> : l \in Lines} \cup {<< <<"f">>, l >> : l \in Lines}

-----------------------------------------------------------------------------
(* AlgoScene.sound_block: core/algo_scene.py.  The block is a generator    *)
(* under contextlib.contextmanager: entering the with statement runs it to *)
(* its yield, leaving the body normally resumes it after the yield, and an *)
(* exception of the body is raised inside it at the yield.  Times are in   *)
(* tenths of a second.                                                     *)

\* one call on the scene
SceneCall(name, arg) == [call |-> name, arg |-> arg]

\* sound_block up to its yield
SoundBlockEnter(offset) ==
    IF offset < 0
    THEN <<SceneCall("add_sound", 0), SceneCall("wait", -offset)>>
    ELSE <<SceneCall("add_sound", offset)>>

\* sound_block from its yield on, when the body has returned
SoundBlockResume(after) == <<SceneCall("wait", after)>>

\* sound_block from its yield on, when the body has raised: no statement
\* encloses the yield, so the exception leaves the generator there
SoundBlockThrow(after) == <<>>

\* `with self.sound_block(sound, offset, after):` not yet entered
NewSoundBlock(offset, after) ==
    [offset |-> offset, after |-> after, pc |-> "before", log |-> <<>>]

\* the offset and after arguments a caller passes, and the most calls the
\* body of a block makes on the scene
Offsets == -2..2
Afters == {0, 5, 10}
MaxBodyCalls == 2

-----------------------------------------------------------------------------
(* LinkedList of algomanim.py.  Its data is a list after __init__ and the  *)
(* object update_value was given after update_value, so the values the     *)
(* data can be carry their type.  ListNode is the node class the module    *)
(* imports; the source builds it with ListNode(val) and uses its val and   *)
(* next.  Only the container channel of the structure is modelled here.    *)

TypeErrorName == "TypeError"

None == [type |-> "NoneType"]
ListNode(val, next) == [type |-> "ListNode", val |-> val, next |-> next]
List(items) == [type |-> "list", items |-> items]

\* LinkedList.create_linked_list
RECURSIVE create_linked_list(_)
create_linked_list(value) ==
    IF value = <<>> THEN None
    ELSE ListNode(value[1], create_linked_list(Tail(value)))

\* LinkedList.linked_list_to_list
RECURSIVE linked_list_to_list(_)
linked_list_to_list(head) ==
    IF head.type = "NoneType" THEN <<>>
    ELSE <<head.val>> \o linked_list_to_list(head.next)

\* the truth value of an object: None is false, a list is true when it has
\* items, a node is true
PyTruthy(v) ==
    IF v.type = "NoneType" THEN FALSE
    ELSE IF v.type = "list" THEN Len(v.items) > 0
    ELSE TRUE

\* default of the fill_color parameter of LinkedList.__init__
LinkedListFillColor == "LIGHT_GRAY"

\* _apply_containers_colors on a LinkedList
LinkedListApplyContainersColors(ll) ==
    [i \in DOMAIN ll.containers_mob |->
        IF i \in DOMAIN ll.containers_colors /\ PyTruthy(ll.data)
        THEN ll.containers_colors[i]
        ELSE ll.fill_color]

\* LinkedList.__init__: the data is the list of the values of the nodes, and
\* there is one container per item (none for an empty list)
NewLinkedList(head, fill) ==
    [data |-> List(linked_list_to_list(head)),
     fill_color |-> fill,
     containers_colors |-> EmptyDict,
     containers_mob |-> Group(Len(linked_list_to_list(head)), fill)]

\* highlight_containers_with_value on a LinkedList: len(self._data) raises
\* TypeError when the data is a node
LinkedListHighlightContainersWithValue(ll, val) ==
    LET cleared == [ll EXCEPT !.containers_colors = EmptyDict]
        filled == [cleared EXCEPT !.containers_colors =
                      ContainersWithValueFill(ll.data.items, val,
                          HighlightColors.color_containers_with_value)]
    IN  IF ~PyTruthy(ll.data) THEN [inst |-> cleared, raised |-> NoError]
        ELSE IF ll.data.type # "list"
        THEN [inst |-> cleared, raised |-> TypeErrorName]
        ELSE [inst |-> [filled EXCEPT !.containers_mob =
                           LinkedListApplyContainersColors(filled)],
              raised |-> NoError]

\* LinkedList.update_value(scene, new_value): new_value is the head the new
\* LinkedList is built from, and it is what _update_internal_state stores
LinkedListUpdateValue(ll, new_value) ==
    IF ~PyTruthy(ll.data) /\ ~PyTruthy(new_value) THEN ll
    ELSE LET built == NewLinkedList(new_value, LinkedListFillColor)
             kept == [built EXCEPT !.containers_colors = ll.containers_colors]
         IN  [ll EXCEPT !.data = new_value,
                        !.containers_mob = LinkedListApplyContainersColors(kept)]

\* the lists a caller makes linked lists of
ListValues == UNION {[1..n -> Values] : n \in 0..MaxLen}

-----------------------------------------------------------------------------
(* Objects no live instance refers to are freed.  Addresses are only ever  *)
(* compared for equality, so after each call they are renumbered: the      *)
(* dictionaries of self get 1, 2, 3 and those of new_group that self does  *)
(* not hold get 4, 5, 6.                                                   *)

Address(id, s, other) ==
    IF id = s.containers_colors THEN 1
    ELSE IF id = s.top_pointers_colors THEN 2
    ELSE IF id = s.bottom_pointers_colors THEN 3
    ELSE other

Collect(s, g, h) ==
    LET s1 == [s EXCEPT !.containers_colors = 1,
                        !.top_pointers_colors = 2,
                        !.bottom_pointers_colors = 3]
        g1 == [p \in DOMAIN g |->
                [g[p] EXCEPT !.containers_colors = Address(@, s, 4),
                             !.top_pointers_colors = Address(@, s, 5),
                             !.bottom_pointers_colors = Address(@, s, 6)]]
        own == (1 :> h[s.containers_colors]) @@ (2 :> h[s.top_pointers_colors])
                   @@ (3 :> h[s.bottom_pointers_colors])
        theirs == IF g = <<>> THEN own
                  ELSE (4 :> h[g[1].containers_colors])
                           @@ (5 :> h[g[1].top_pointers_colors])
                           @@ (6 :> h[g[1].bottom_pointers_colors])
        live == {1, 2, 3} \cup
                    (IF g = <<>> THEN {}
                     ELSE {g1[1].containers_colors, g1[1].top_pointers_colors,
                           g1[1].bottom_pointers_colors})
    IN  [self |-> s1, new_group |-> g1,
         heap |-> [id \in live |-> IF id \in DOMAIN own THEN own[id] ELSE theirs[id]]]

-----------------------------------------------------------------------------
(* The state machine                                                       *)

\* the three dictionaries of inst, by value
Store(inst, h) ==
    <<h[inst.containers_colors], h[inst.top_pointers_colors],
      h[inst.bottom_pointers_colors]>>

\* what is on record about the last call: the method, the message of the
\* ValueError it raised, its arguments when it returned, the calls it made on
\* the scene, the length of the data before it, and whether some entry of
\* the store before the call is gone after it
Called(op, raised, idx_list, pos, val, scene, old_len, dropped) ==
    [op |-> op, raised |-> raised, idx_list |-> idx_list, pos |-> pos, val |-> val,
     scene |-> scene, old_len |-> old_len, dropped |-> dropped]

Dropped(old, new) == \E ch \in 1..3 : (DOMAIN old[ch]) \ (DOMAIN new[ch]) # {}

\* a call on self that returned or raised; the new_group of an earlier
\* update_value is out of scope by then.  (The outcome is bound by \E so that
\* it is computed once.)
Returns(outcome, idx_list, pos, val, op) ==
    \E r \in {outcome} :
        \E c \in {Collect(r.inst, <<>>, r.heap)} :
            \E gone \in {Dropped(Store(self, heap), Store(c.self, c.heap))} :
                /\ self' = c.self
                /\ new_group' = c.new_group
                /\ heap' = c.heap
                /\ UNCHANGED <<code_block, aside>>
                /\ last' = IF r.raised = NoError
                           THEN Called(op, NoError, idx_list, pos, val, <<>>,
                                       Len(self.data), gone)
                           ELSE Called(op, r.raised, <<>>, 0, 0, <<>>,
                                       Len(self.data), gone)

Construct(kind, value, fill) ==
    LET built == NewInstance(kind, value, fill, CtorBgColor(kind), EmptyDict)
        c == Collect(built.inst, <<>>, built.heap)
    IN  /\ self = c.self
        /\ new_group = c.new_group
        /\ heap = c.heap
        /\ last = Called("__init__", NoError, <<>>, 0, 0, <<>>, Len(value), FALSE)

\* a generator that has not been asked to generate, a sound block that is
\* not entered, a caller that keeps no list, an empty LinkedList
IdleGenerator == generator = NewCodeGenerator(<< <<>> >>)
IdleSound == sound = NewSoundBlock(0, 5)
IdlePassed == passed = [obj |-> <<>>, held |-> FALSE]

LinkedListCalled(inst, op, raised, val, value) ==
    [inst |-> inst, op |-> op, raised |-> raised, val |-> val, value |-> value]

IdleLinkedList ==
    linked_list = LinkedListCalled(NewLinkedList(None, LinkedListFillColor),
                                   "__init__", NoError, 0, <<>>)

\* Array(value, fill_color=fill), next to a code block of one line
Init ==
    /\ \E value \in Datas, fill \in FillColors : Construct("Array", value, fill)
    /\ code_block = NewCodeBlock("ui.code_block", 1, 0)
    /\ IdleGenerator /\ IdleSound /\ IdlePassed /\ IdleLinkedList

HighlightContainers(lists) ==
    \E idx_list \in lists :
        Returns(highlight_containers(self, idx_list, heap), idx_list, 0, 0,
                "highlight_containers")

HighlightContainersWithValue ==
    \E val \in QueryValues :
        Returns(highlight_containers_with_value(self, val, heap), <<>>, 0, val,
                "highlight_containers_with_value")

Pointers(lists) ==
    \E idx_list \in lists, pos \in Positions :
        Returns(pointers(self, idx_list, pos, heap), idx_list, pos, 0, "pointers")

PointersOnValue ==
    \E val \in QueryValues, pos \in Positions :
        Returns(pointers_on_value(self, val, pos, heap), <<>>, pos, val,
                "pointers_on_value")

ClearContainersHighlights ==
    Returns(clear_containers_highlights(self, heap), <<>>, 0, 0,
            "clear_containers_highlights")

ClearPointersHighlights ==
    \E pos \in Positions :
        Returns(clear_pointers_highlights(self, pos, heap), <<>>, pos, 0,
                "clear_pointers_highlights")

\* self.update_value(scene, new_value, animate)
UpdateValueCall(new_value, animate) ==
    \E r \in {update_value(self, new_value, animate, heap)} :
        \E c \in {Collect(r.inst, r.group, r.heap)} :
            \E gone \in {Dropped(Store(self, heap), Store(c.self, c.heap))} :
                /\ self' = c.self
                /\ new_group' = c.new_group
                /\ heap' = c.heap
                /\ last' = Called("update_value", NoError, <<>>, 0, 0, r.scene,
                                  Len(self.data), gone)

UpdateValue ==
    \E new_value \in Datas, animate \in BOOLEAN :
        /\ UpdateValueCall(new_value, animate)
        /\ UNCHANGED <<code_block, aside>>

Next ==
    \/ HighlightContainers(LifeLists)
    \/ HighlightContainersWithValue
    \/ Pointers(LifeLists)
    \/ PointersOnValue
    \/ ClearContainersHighlights
    \/ ClearPointersHighlights
    \/ UpdateValue

\* the life of a structure in a scene: any calls, in any order
Spec == Init /\ [][Next]_vars

\* the index-based calls with every idx_list, each on a newly constructed
\* structure
NextResolve ==
    /\ last.op = "__init__"
    /\ \/ HighlightContainers(IdxLists)
       \/ Pointers(IdxLists)

SpecResolve == Init /\ [][NextResolve]_vars

\* a code block of either class, of every shape
InitCode ==
    /\ Construct("Array", <<>>, "GRAY")
    /\ \E module \in {"ui.code_block", "algomanim"},
          n_code \in 1..MaxCodeLines, n_pre \in 0..MaxPrecodeLines :
            code_block = NewCodeBlock(module, n_code, n_pre)
    /\ IdleGenerator /\ IdleSound /\ IdlePassed /\ IdleLinkedList

Highlight ==
    /\ code_block.module = "ui.code_block"
    /\ \E indices \in IndexTuples :
          \E r \in {highlight(code_block, indices)} :
              /\ code_block' = r.block
              /\ last' = Called("highlight", r.raised, indices, 0, 0, <<>>, 0, FALSE)
    /\ UNCHANGED <<self, new_group, heap, aside>>

HighlightLine ==
    /\ code_block.module = "algomanim"
    /\ \E i \in LineIndices :
          \E r \in {highlight_line(code_block, i)} :
              /\ code_block' = r.block
              /\ last' = Called("highlight_line", r.raised, <<i>>, 0, 0, <<>>, 0, FALSE)
    /\ UNCHANGED <<self, new_group, heap, aside>>

NextCode == Highlight \/ HighlightLine

\* the life of a code block: any highlight calls, in any order
SpecCode == InitCode /\ [][NextCode]_vars

\* a generator over every code, asked once to generate
InitGenerate ==
    /\ Construct("Array", <<>>, "GRAY")
    /\ code_block = NewCodeBlock("ui.code_block", 1, 0)
    /\ \E code \in Codes : generator = NewCodeGenerator(code)
    /\ IdleSound /\ IdlePassed /\ IdleLinkedList

Generate ==
    /\ ~generator.called
    /\ generator' = generate(generator.code)
    /\ UNCHANGED <<self, new_group, heap, last, code_block, sound, passed,
                   linked_list>>

SpecGenerate == InitGenerate /\ [][Generate]_vars

\* `with self.sound_block(sound, offset, after): body`, for a body that
\* makes some calls on the scene and then returns or raises
InitSound ==
    /\ Construct("Array", <<>>, "GRAY")
    /\ code_block = NewCodeBlock("ui.code_block", 1, 0)
    /\ \E offset \in Offsets, after \in Afters : sound = NewSoundBlock(offset, after)
    /\ IdleGenerator /\ IdlePassed /\ IdleLinkedList

SoundStep(pc, calls) ==
    /\ sound' = [sound EXCEPT !.pc = pc, !.log = sound.log \o calls]
    /\ UNCHANGED <<self, new_group, heap, last, code_block, generator, passed,
                   linked_list>>

\* the calls of the body that are on the log
BodyCalls == Cardinality({x \in 1..Len(sound.log) : sound.log[x].call = "play"})

EnterSoundBlock ==
    /\ sound.pc = "before"
    /\ SoundStep("body", SoundBlockEnter(sound.offset))

BodyPlays ==
    /\ sound.pc = "body"
    /\ BodyCalls < MaxBodyCalls
    /\ SoundStep("body", <<SceneCall("play", 0)>>)

BodyReturns ==
    /\ sound.pc = "body"
    /\ SoundStep("returned", SoundBlockResume(sound.after))

BodyRaises ==
    /\ sound.pc = "body"
    /\ SoundStep("raised", SoundBlockThrow(sound.after))

NextSound == EnterSoundBlock \/ BodyPlays \/ BodyReturns \/ BodyRaises

SpecSound == InitSound /\ [][NextSound]_vars

\* Array.__init__: self._data = arr.copy(), a list of its own
PassedToInit(arr) == [obj |-> arr, held |-> FALSE]

\* _update_internal_state: self._data = new_value, the list of the caller
\* itself; an update_value that returns at its first test stores nothing
PassedToUpdateValue(inst, new_value, was) ==
    IF ~Truthy(inst.data) /\ ~Truthy(new_value) THEN was
    ELSE [obj |-> new_value, held |-> TRUE]

\* what the caller does to the list it passed: append(v), pop()
Mutations(obj) ==
    {Append(obj, v) : v \in IF Len(obj) < MaxLen THEN Values ELSE {}}
        \cup (IF obj = <<>> THEN {} ELSE {SubSeq(obj, 1, Len(obj) - 1)})

\* an Array and the caller that keeps the list it passed
InitAlias ==
    /\ \E value \in Datas :
          /\ Construct("Array", value, "GRAY")
          /\ passed = PassedToInit(value)
    /\ code_block = NewCodeBlock("ui.code_block", 1, 0)
    /\ IdleGenerator /\ IdleSound /\ IdleLinkedList

UpdateValueOfCaller ==
    \E new_value \in Datas, animate \in BOOLEAN :
        /\ UpdateValueCall(new_value, animate)
        /\ passed' = PassedToUpdateValue(self, new_value, passed)
        /\ UNCHANGED <<code_block, generator, sound, linked_list>>

CallerMutates ==
    \E obj \in Mutations(passed.obj) :
        /\ passed' = [passed EXCEPT !.obj = obj]
        /\ self' = IF passed.held THEN [self EXCEPT !.data = obj] ELSE self
        /\ last' = Called("caller", NoError, <<>>, 0, 0, <<>>, Len(self.data), FALSE)
        /\ UNCHANGED <<new_group, heap, code_block, generator, sound, linked_list>>

NextAlias == UpdateValueOfCaller \/ CallerMutates \/ HighlightContainersWithValue

SpecAlias == InitAlias /\ [][NextAlias]_vars

\* a LinkedList over every list, updated and highlighted by value
InitLinkedList ==
    /\ Construct("Array", <<>>, "GRAY")
    /\ code_block = NewCodeBlock("ui.code_block", 1, 0)
    /\ \E value \in ListValues :
          linked_list = LinkedListCalled(
              NewLinkedList(create_linked_list(value), LinkedListFillColor),
              "__init__", NoError, 0, value)
    /\ IdleGenerator /\ IdleSound /\ IdlePassed

LinkedListStep(r) ==
    /\ linked_list' = r
    /\ UNCHANGED <<self, new_group, heap, last, code_block, generator, sound,
                   passed>>

UpdateLinkedList ==
    \E value \in ListValues :
        LinkedListStep(LinkedListCalled(
            LinkedListUpdateValue(linked_list.inst, create_linked_list(value)),
            "update_value", NoError, 0, value))

HighlightLinkedListWithValue ==
    \E val \in QueryValues :
        \E r \in {LinkedListHighlightContainersWithValue(linked_list.inst, val)} :
            LinkedListStep(LinkedListCalled(r.inst, "highlight_containers_with_value",
                                            r.raised, val, linked_list.value))

NextLinkedList == UpdateLinkedList \/ HighlightLinkedListWithValue

SpecLinkedList == InitLinkedList /\ [][NextLinkedList]_vars

-----------------------------------------------------------------------------
(* Properties                                                              *)

\* the three dictionaries of self
ContainersColors == heap[self.containers_colors]
TopPointersColors == heap[self.top_pointers_colors]
BottomPointersColors == heap[self.bottom_pointers_colors]

\* the dictionary pointers(..., pos) writes
PointersColorsAt(pos) == IF pos = TOP THEN TopPointersColors ELSE BottomPointersColors

\* the last call was an update_value that built a new_group
Rebuilt == last.op = "update_value" /\ last.scene # <<>>

\* C1: update_value leaves the three highlight dictionaries of the structure
\* exactly as they were before the call, whatever the new data.
C1_UpdateValueKeepsStore ==
    [][last'.op = "update_value" => Store(self', heap') = Store(self, heap)]_vars

\* the data was cut from three values to one with entries in all three
\* dictionaries, among them the entries a value-based call made for slots 0, 2
C1_Witness ==
    /\ Rebuilt
    /\ last.old_len = 3
    /\ Len(self.data) = 1
    /\ DOMAIN ContainersColors = {0, 2}
    /\ TopPointersColors # EmptyDict
    /\ BottomPointersColors # EmptyDict

\* C2: an entry of the container dictionary at p that an update_value left
\* without a slot (the data went from more than p values to at most p) shows
\* its stored colour at slot p after an update_value to more than p values.
C2_DormantEntryReactivated ==
    [][\A p \in 0..MaxLen :
          (/\ last.op = "update_value"
           /\ last.old_len > p
           /\ Len(self.data) <= p
           /\ p \in DOMAIN ContainersColors
           /\ last'.op = "update_value"
           /\ Len(self'.data) > p)
          => self'.containers_mob[p] = ContainersColors[p]]_vars

\* slot 1 shows the colour that highlight_containers([MaxLen, 1, 1]) stored
\* for it, on data that an update_value has just made longer than one value
C2_Witness ==
    /\ last.op = "update_value"
    /\ last.old_len <= 1
    /\ Len(self.data) > 1
    /\ 1 \in DOMAIN ContainersColors
    /\ ContainersColors[1] = HighlightColors.color_23
    /\ self.containers_mob[1] = HighlightColors.color_23

\* C3: after an update_value that built a new structure, container slot p
\* shows the stored colour if p is a key and the new data is not empty, and
\* otherwise the fill colour of the instance that painted it (new_group);
\* the triangles of slot p show the stored triple under the same condition
\* and otherwise the background colour; and there are no other slots.
C3_PaintedAfterUpdateValue ==
    Rebuilt =>
        LET fill == new_group[1].fill_color
            bg == new_group[1].bg_color
            m == Len(self.data)
            Triple(d, p) == IF p \in DOMAIN d /\ m > 0 THEN d[p] ELSE <<bg, bg, bg>>
        IN  /\ DOMAIN self.containers_mob = 0..((IF m > 0 THEN m ELSE 1) - 1)
            /\ DOMAIN self.pointers_top = 0..(m - 1)
            /\ DOMAIN self.pointers_bottom = 0..(m - 1)
            /\ \A p \in DOMAIN self.containers_mob :
                  self.containers_mob[p] =
                      IF p \in DOMAIN ContainersColors /\ m > 0
                      THEN ContainersColors[p] ELSE fill
            /\ \A p \in 0..(m - 1) :
                  /\ self.pointers_top[p] = Triple(TopPointersColors, p)
                  /\ self.pointers_bottom[p] = Triple(BottomPointersColors, p)

\* update_value to empty data on a structure that holds an entry for slot 0
C3_Witness ==
    /\ Rebuilt
    /\ self.data = <<>>
    /\ 0 \in DOMAIN ContainersColors
    /\ 1 \in DOMAIN ContainersColors
    /\ self.containers_mob[0] = new_group[1].fill_color

\* the heap with every dictionary emptied
EmptiedHeap == [id \in DOMAIN heap |-> EmptyDict]

\* the elements of a list
Elements(l) == {l[x] : x \in 1..Len(l)}

\* slots whose value is val
Matches(val) == {p \in 0..(Len(self.data) - 1) : self.data[p + 1] = val}

\* C4: after a highlight-setting call that returned, the dictionary it
\* targets holds only keys the call names and equals what the same call
\* writes on a structure whose dictionaries are empty.
C4_ReplaceNeverMerge ==
    last.raised = NoError =>
        /\ last.op = "highlight_containers" =>
              /\ DOMAIN ContainersColors \subseteq Elements(last.idx_list)
              /\ ContainersColors =
                    Store(highlight_containers(self, last.idx_list, EmptiedHeap).inst,
                          highlight_containers(self, last.idx_list, EmptiedHeap).heap)[1]
        /\ last.op = "highlight_containers_with_value" =>
              /\ DOMAIN ContainersColors \subseteq Matches(last.val)
              /\ ContainersColors =
                    Store(highlight_containers_with_value(self, last.val, EmptiedHeap).inst,
                          highlight_containers_with_value(self, last.val, EmptiedHeap).heap)[1]
        /\ last.op = "pointers" =>
              /\ DOMAIN PointersColorsAt(last.pos) \subseteq Elements(last.idx_list)
              /\ Store(self, heap) [last.pos + 2] =
                    Store(pointers(self, last.idx_list, last.pos, EmptiedHeap).inst,
                          pointers(self, last.idx_list, last.pos, EmptiedHeap).heap)[last.pos + 2]
        /\ last.op = "pointers_on_value" =>
              /\ DOMAIN PointersColorsAt(last.pos) \subseteq Matches(last.val)
              /\ Store(self, heap) [last.pos + 2] =
                    Store(pointers_on_value(self, last.val, last.pos, EmptiedHeap).inst,
                          pointers_on_value(self, last.val, last.pos, EmptiedHeap).heap)[last.pos + 2]

\* highlight_containers([1]) on a structure whose container dictionary held
\* an entry for another slot
C4_Witness ==
    /\ last.op = "highlight_containers"
    /\ last.raised = NoError
    /\ last.idx_list = <<1>>
    /\ last.dropped
    /\ DOMAIN ContainersColors = {1}

\* idx_lists of an arity that is not 1, 2 or 3
BadLists == {l \in IdxLists : Len(l) \notin MinArity..MaxArity}

\* C5: pointers and highlight_containers called with an idx_list of length 0
\* or more than 3 raise, and leave the instance (its painted colours
\* included) and the three dictionaries as they were.
C5_ArityValidationAtomic ==
    \A l \in BadLists :
        /\ highlight_containers(self, l, heap) = Outcome(self, heap, ArityMsg)
        /\ \A pos \in Positions :
              pointers(self, l, pos, heap) = Outcome(self, heap, ArityMsg)

\* pointers has just raised for the arity on a structure with top pointers
\* painted
C5_Witness ==
    /\ last.op = "pointers"
    /\ last.raised = ArityMsg
    /\ TopPointersColors # EmptyDict
    /\ \E p \in (DOMAIN self.pointers_top) \cap (DOMAIN TopPointersColors) :
          self.pointers_top[p] = TopPointersColors[p]

\* C6: pointers, pointers_on_value and clear_pointers_highlights called with
\* a pos that is neither 0 nor 1 raise, and leave the instance (its painted
\* colours included) and the three dictionaries as they were.
C6_SideValidationAtomic ==
    \A pos \in Positions \ {TOP, BOTTOM} :
        /\ \A l \in LifeLists :
              LET r == pointers(self, l, pos, heap)
              IN  r.raised # NoError /\ r.inst = self /\ r.heap = heap
        /\ \A val \in QueryValues :
              pointers_on_value(self, val, pos, heap) = Outcome(self, heap, PosMsg)
        /\ clear_pointers_highlights(self, pos, heap) = Outcome(self, heap, PosMsg)

\* pointers_on_value has just raised for the side on a structure with bottom
\* pointers painted
C6_Witness ==
    /\ last.op = "pointers_on_value"
    /\ last.raised = PosMsg
    /\ BottomPointersColors # EmptyDict
    /\ \E p \in (DOMAIN self.pointers_bottom) \cap (DOMAIN BottomPointersColors) :
          self.pointers_bottom[p] = BottomPointersColors[p]

\* the last call was an index-based call of the named method that returned,
\* with every index a member of containers_mob
InRangeCall(op, arities) ==
    /\ last.op = op
    /\ last.raised = NoError
    /\ Len(last.idx_list) \in arities
    /\ Elements(last.idx_list) \subseteq DOMAIN self.containers_mob

\* the places of idx_list (1 for i, 2 for j, 3 for k) that hold index p
CursorsAt(l, p) == {x \in 1..Len(l) : l[x] = p}

\* the rows of the container table, by the cursors that meet on a slot
TableColor(cursors) ==
    IF cursors = {1, 2, 3} THEN HighlightColors.color_123
    ELSE IF cursors = {1, 2} THEN HighlightColors.color_12
    ELSE IF cursors = {1, 3} THEN HighlightColors.color_13
    ELSE IF cursors = {2, 3} THEN HighlightColors.color_23
    ELSE IF cursors = {1} THEN HighlightColors.color_1
    ELSE IF cursors = {2} THEN HighlightColors.color_2
    ELSE HighlightColors.color_3

\* C7: highlight_containers([i, j, k]) with i, j, k all slots of the
\* structure leaves a container dictionary whose keys are i, j, k and whose
\* colour at each key is the table's row for the cursors that meet there:
\* color_123, color_12, color_13, color_23, or color_1 / color_2 / color_3.
C7_ContainerTableArity3 ==
    InRangeCall("highlight_containers", {3}) =>
        ContainersColors =
            [p \in Elements(last.idx_list) |-> TableColor(CursorsAt(last.idx_list, p))]

\* highlight_containers([1, 0, 1]) on three values
C7_Witness ==
    /\ InRangeCall("highlight_containers", {3})
    /\ Len(self.data) = 3
    /\ last.idx_list = <<1, 0, 1>>
    /\ ContainersColors = (1 :> HighlightColors.color_13) @@ (0 :> HighlightColors.color_2)
    /\ self.containers_mob[1] = HighlightColors.color_13

\* C8: for indices that are slots of the structure, highlight_containers([i])
\* leaves {i: color_1}, highlight_containers([i, j]) leaves {i: color_12}
\* when i = j and {i: color_1, j: color_2} otherwise, which are the rows of
\* the three-index table that do not mention k.
C8_ContainerTableArity1And2 ==
    InRangeCall("highlight_containers", {1, 2}) =>
        LET i == last.idx_list[1]
            j == last.idx_list[2]
        IN  /\ Len(last.idx_list) = 1 =>
                  ContainersColors = (i :> HighlightColors.color_1)
            /\ (Len(last.idx_list) = 2 /\ i = j) =>
                  ContainersColors = (i :> HighlightColors.color_12)
            /\ (Len(last.idx_list) = 2 /\ i # j) =>
                  ContainersColors =
                      (i :> HighlightColors.color_1) @@ (j :> HighlightColors.color_2)
            /\ ContainersColors =
                  [p \in Elements(last.idx_list) |->
                      TableColor(CursorsAt(last.idx_list, p))]

\* highlight_containers([2, 2]) on three values
C8_Witness ==
    /\ InRangeCall("highlight_containers", {2})
    /\ last.idx_list = <<2, 2>>
    /\ ContainersColors = (2 :> HighlightColors.color_12)
    /\ self.containers_mob[2] = HighlightColors.color_12

\* the colour of the cursor at place x of idx_list
CursorColor(x) ==
    IF x = 1 THEN PointerColors.color_1
    ELSE IF x = 2 THEN PointerColors.color_2
    ELSE PointerColors.color_3

\* the least and the greatest member of a non-empty set of places
First(cursors) == CHOOSE x \in cursors : \A y \in cursors : x <= y
Second(cursors) == CHOOSE x \in cursors : \A y \in cursors : y <= x

\* the triple of a slot in the pointer table, by the cursors that meet on it
TableTriple(cursors, bg) ==
    IF Cardinality(cursors) = 1
    THEN <<bg, CursorColor(First(cursors)), bg>>
    ELSE IF Cardinality(cursors) = 2
    THEN <<CursorColor(First(cursors)), bg, CursorColor(Second(cursors))>>
    ELSE <<PointerColors.color_1, PointerColors.color_2, PointerColors.color_3>>

\* C9: pointers(idx_list, pos) with one to three indices that are all slots
\* of the structure leaves in the dictionary of that side, at each slot p:
\* (bg, colorX, bg) when one cursor X is at p, (colorA, bg, colorB) when two
\* cursors A before B are at p, (color_1, color_2, color_3) when all three
\* are, and no entry when none is.
C9_PointerResolution ==
    InRangeCall("pointers", {1, 2, 3}) =>
        PointersColorsAt(last.pos) =
            [p \in Elements(last.idx_list) |->
                TableTriple(CursorsAt(last.idx_list, p), self.bg_color)]

\* pointers([1, 2, 1], 0) on three values
C9_Witness ==
    /\ InRangeCall("pointers", {3})
    /\ last.idx_list = <<1, 2, 1>>
    /\ last.pos = TOP
    /\ TopPointersColors =
          (1 :> <<PointerColors.color_1, self.bg_color, PointerColors.color_3>>)
          @@ (2 :> <<self.bg_color, PointerColors.color_2, self.bg_color>>)
    /\ self.pointers_top[1] = TopPointersColors[1]

\* C10: after highlight_containers or pointers with one to three
\* non-negative indices, in range or not, the keys of the dictionary the
\* call wrote are the distinct values of idx_list.
C10_KeysAreIndexValues ==
    (/\ last.op \in {"highlight_containers", "pointers"}
     /\ last.raised = NoError
     /\ \A x \in 1..Len(last.idx_list) : last.idx_list[x] >= 0)
    => /\ last.op = "highlight_containers" =>
              DOMAIN ContainersColors = Elements(last.idx_list)
       /\ last.op = "pointers" =>
              DOMAIN PointersColorsAt(last.pos) = Elements(last.idx_list)

\* the colour the value-based calls use when the caller passes none
ValueColor == HighlightColors.color_containers_with_value

\* C11: on non-empty data, highlight_containers_with_value(v) leaves the
\* container dictionary {p: c} over exactly the slots p with data[p] = v,
\* and pointers_on_value(v, side) leaves that side's dictionary
\* {p: (bg, c, bg)} over the same slots; a value that is nowhere in the data
\* leaves the empty dictionary.
C11_ValueBasedMarking ==
    (last.raised = NoError /\ Len(self.data) > 0) =>
        /\ last.op = "highlight_containers_with_value" =>
              /\ ContainersColors = [p \in Matches(last.val) |-> ValueColor]
              /\ (Matches(last.val) = {}) => ContainersColors = EmptyDict
        /\ last.op = "pointers_on_value" =>
              /\ PointersColorsAt(last.pos) =
                    [p \in Matches(last.val) |->
                        <<self.bg_color, ValueColor, self.bg_color>>]
              /\ (Matches(last.val) = {}) => PointersColorsAt(last.pos) = EmptyDict

\* highlight_containers_with_value(0) on [0, 5, 0] marked slots 0 and 2
C11_Witness ==
    /\ last.op = "highlight_containers_with_value"
    /\ last.val = 0
    /\ self.data = <<0, 5, 0>>
    /\ ContainersColors = (0 :> ValueColor) @@ (2 :> ValueColor)
    /\ self.containers_mob = (0 :> ValueColor) @@ (1 :> self.fill_color) @@ (2 :> ValueColor)

\* C12: on empty data, highlight_containers_with_value and pointers_on_value
\* with a side of 0 or 1 raise nothing, leave the dictionary they target
\* empty whatever it held, and leave the other two dictionaries as they were.
C12_ValueBasedOnEmptyData ==
    self.data = <<>> =>
        \A val \in QueryValues :
            /\ LET r == highlight_containers_with_value(self, val, heap)
               IN  /\ r.raised = NoError
                   /\ Store(r.inst, r.heap)[1] = EmptyDict
                   /\ Store(r.inst, r.heap)[2] = TopPointersColors
                   /\ Store(r.inst, r.heap)[3] = BottomPointersColors
            /\ \A pos \in {TOP, BOTTOM} :
                  LET r == pointers_on_value(self, val, pos, heap)
                  IN  /\ r.raised = NoError
                      /\ Store(r.inst, r.heap)[pos + 2] = EmptyDict
                      /\ Store(r.inst, r.heap)[1] = ContainersColors
                      /\ Store(r.inst, r.heap)[3 - pos] =
                             (IF pos = TOP THEN BottomPointersColors
                              ELSE TopPointersColors)

\* highlight_containers_with_value on empty data has just discarded entries,
\* with entries in both pointer dictionaries
C12_Witness ==
    /\ last.op = "highlight_containers_with_value"
    /\ last.raised = NoError
    /\ self.data = <<>>
    /\ last.dropped
    /\ ContainersColors = EmptyDict
    /\ TopPointersColors # EmptyDict
    /\ BottomPointersColors # EmptyDict

\* C13: painting the stored dictionaries onto the slots twice in a row
\* gives the colours that painting them once gives, and the instance holds
\* the same three dictionaries afterwards.
C13_IdempotentRepaint ==
    LET once == Paint(self, heap)
        twice == Paint(once, heap)
    IN  /\ twice.containers_mob = once.containers_mob
        /\ twice.pointers_top = once.pointers_top
        /\ twice.pointers_bottom = once.pointers_bottom
        /\ Store(twice, heap) = Store(self, heap)
        /\ SaveHighlightsStates(twice) = SaveHighlightsStates(self)

\* a structure with entries in all three dictionaries, a marked slot in
\* range, and slots that a repaint changes
C13_Witness ==
    /\ Len(self.data) = 3
    /\ 1 \in DOMAIN ContainersColors
    /\ TopPointersColors # EmptyDict
    /\ BottomPointersColors # EmptyDict
    /\ Paint(self, heap).containers_mob # self.containers_mob
    /\ Paint(self, heap).containers_mob[1] = ContainersColors[1]

\* the dictionaries an instance refers to
Refs(inst) ==
    {inst.containers_colors, inst.top_pointers_colors, inst.bottom_pointers_colors}

\* C14: after _save_highlights_states on the old instance and
\* _preserve_highlights_states on the successor, the successor's three
\* dictionaries equal the old instance's and none of them is an object the
\* old instance refers to.
C14_SnapshotIsIndependentCopy ==
    Rebuilt =>
        /\ Store(new_group[1], heap) = Store(self, heap)
        /\ Refs(new_group[1]) \cap Refs(self) = {}

\* C15: for any contents of the store, keys past the last slot and negative
\* keys included, painting completes, gives a colour to the slots of the
\* structure and to nothing else, and leaves the three dictionaries as they
\* were.
C15_PaintingNeverFailsNorPrunes ==
    LET painted == PreserveHighlightsStates(self, SaveHighlightsStates(self), heap)
        Shown == {self.fill_color, self.bg_color} \cup
                     {HighlightColors[f] : f \in DOMAIN HighlightColors}
    IN  /\ painted.heap = heap
        /\ Store(painted.inst, painted.heap) = Store(self, heap)
        /\ DOMAIN painted.inst.containers_mob = DOMAIN self.containers_mob
        /\ DOMAIN painted.inst.pointers_top = DOMAIN self.pointers_top
        /\ DOMAIN painted.inst.pointers_bottom = DOMAIN self.pointers_bottom
        /\ \A p \in DOMAIN painted.inst.containers_mob :
              painted.inst.containers_mob[p] \in Shown
        /\ \A p \in DOMAIN painted.inst.pointers_top :
              painted.inst.pointers_top[p] \in [1..3 -> Shown]
        /\ \A p \in DOMAIN painted.inst.pointers_bottom :
              painted.inst.pointers_bottom[p] \in [1..3 -> Shown]

\* pointers([-1], 0) and pointers([MaxLen], 0) have each just painted a
\* structure of three slots from a dictionary whose only key is no slot
C15_Witness ==
    /\ last.op = "pointers"
    /\ last.raised = NoError
    /\ last.pos = TOP
    /\ last.idx_list \in {<<-1>>, <<MaxLen>>}
    /\ Len(self.data) = 3
    /\ DOMAIN TopPointersColors \in {{-1}, {MaxLen}}
    /\ \A p \in 0..2 : self.pointers_top[p] = <<self.bg_color, self.bg_color, self.bg_color>>

\* three triangles in the background colour
Unmarked == <<self.bg_color, self.bg_color, self.bg_color>>

\* C16: clear_containers_highlights leaves the container dictionary empty
\* and every container showing the fill colour of the structure;
\* clear_pointers_highlights(side) leaves that side's dictionary empty and
\* every triangle of that side in the background colour; entries without a
\* slot are deleted as well, so that after an update_value that follows the
\* dictionary is still empty and no slot shows a highlight.
C16_ClearEmptiesAndRepaints ==
    [][/\ last'.op = "clear_containers_highlights" =>
              /\ ContainersColors' = EmptyDict
              /\ \A p \in DOMAIN self'.containers_mob :
                    self'.containers_mob[p] = self'.fill_color
       /\ (last'.op = "clear_pointers_highlights" /\ last'.raised = NoError) =>
              /\ last'.pos = TOP => TopPointersColors' = EmptyDict
              /\ last'.pos = BOTTOM => BottomPointersColors' = EmptyDict
              /\ last'.pos = TOP =>
                    \A p \in DOMAIN self'.pointers_top :
                        self'.pointers_top[p] = Unmarked'
              /\ last'.pos = BOTTOM =>
                    \A p \in DOMAIN self'.pointers_bottom :
                        self'.pointers_bottom[p] = Unmarked'
       /\ (last.op = "clear_containers_highlights" /\ last'.op = "update_value") =>
              /\ ContainersColors' = EmptyDict
              /\ \A p \in DOMAIN self'.containers_mob :
                    self'.containers_mob[p] \in
                        {self'.fill_color} \cup
                            {new_group'[g].fill_color : g \in DOMAIN new_group'}
       /\ (/\ last.op = "clear_pointers_highlights"
           /\ last.raised = NoError
           /\ last'.op = "update_value") =>
              /\ last.pos = TOP => TopPointersColors' = EmptyDict
              /\ last.pos = BOTTOM => BottomPointersColors' = EmptyDict
              /\ last.pos = TOP =>
                    \A p \in DOMAIN self'.pointers_top :
                        self'.pointers_top[p] = Unmarked'
              /\ last.pos = BOTTOM =>
                    \A p \in DOMAIN self'.pointers_bottom :
                        self'.pointers_bottom[p] = Unmarked']_vars

\* clear_containers_highlights has just deleted entries on a structure of
\* one value, while both pointer dictionaries hold entries
C16_Witness ==
    /\ last.op = "clear_containers_highlights"
    /\ last.dropped
    /\ Len(self.data) = 1
    /\ ContainersColors = EmptyDict
    /\ self.containers_mob[0] = self.fill_color
    /\ TopPointersColors # EmptyDict
    /\ BottomPointersColors # EmptyDict

\* the methods that write each channel
ContainerCalls ==
    {"highlight_containers", "highlight_containers_with_value",
     "clear_containers_highlights"}
PointerCalls == {"pointers", "pointers_on_value", "clear_pointers_highlights"}

\* C17: a highlight-setting or clear call on one channel (containers, top
\* pointers, bottom pointers) leaves the dictionaries of the other two
\* channels and the colours painted from them as they were.
C17_ChannelsIndependent ==
    [][/\ last'.op \in ContainerCalls =>
              /\ TopPointersColors' = TopPointersColors
              /\ BottomPointersColors' = BottomPointersColors
              /\ self'.pointers_top = self.pointers_top
              /\ self'.pointers_bottom = self.pointers_bottom
       /\ (last'.op \in PointerCalls /\ last'.raised = NoError /\ last'.pos = TOP) =>
              /\ ContainersColors' = ContainersColors
              /\ BottomPointersColors' = BottomPointersColors
              /\ self'.containers_mob = self.containers_mob
              /\ self'.pointers_bottom = self.pointers_bottom
       /\ (last'.op \in PointerCalls /\ last'.raised = NoError /\ last'.pos = BOTTOM) =>
              /\ ContainersColors' = ContainersColors
              /\ TopPointersColors' = TopPointersColors
              /\ self'.containers_mob = self.containers_mob
              /\ self'.pointers_top = self.pointers_top]_vars

\* pointers([0, 1], 1) has just replaced the bottom dictionary on three
\* values whose containers and top triangles show highlights
C17_Witness ==
    /\ last.op = "pointers"
    /\ last.raised = NoError
    /\ last.pos = BOTTOM
    /\ last.idx_list = <<0, 1>>
    /\ last.dropped
    /\ Len(self.data) = 3
    /\ 1 \in DOMAIN ContainersColors
    /\ self.containers_mob[1] = ContainersColors[1]
    /\ 1 \in DOMAIN TopPointersColors
    /\ self.pointers_top[1] = TopPointersColors[1]
    /\ self.pointers_top[1] # Unmarked

\* C18: right after construction over non-empty data of length n the three
\* dictionaries are empty, there are n containers, n top and n bottom
\* triples of triangles, every container shows the fill colour and every
\* triangle the background colour.
C18_InitialState ==
    (last.op = "__init__" /\ Len(self.data) > 0) =>
        LET n == Len(self.data)
        IN  /\ Store(self, heap) = <<EmptyDict, EmptyDict, EmptyDict>>
            /\ DOMAIN self.containers_mob = 0..(n - 1)
            /\ DOMAIN self.pointers_top = 0..(n - 1)
            /\ DOMAIN self.pointers_bottom = 0..(n - 1)
            /\ \A p \in 0..(n - 1) :
                  /\ self.containers_mob[p] = self.fill_color
                  /\ self.pointers_top[p] = Unmarked
                  /\ self.pointers_bottom[p] = Unmarked

\* Array([0, 5, 0], fill_color=GRAY) has just been constructed
C18_Witness ==
    /\ last.op = "__init__"
    /\ self.data = <<0, 5, 0>>
    /\ self.fill_color \in FillColors
    /\ Cardinality(DOMAIN self.containers_mob) = 3

\* the triangles of a stored triple that are not in the background colour:
\* 1 left, 2 middle, 3 right
Lit(triple) == {j \in 1..3 : triple[j] # self.bg_color}

\* C19: after pointers(idx_list, side) with every index a slot of the
\* structure and the cursor colours different from the background, the
\* stored triple of slot p has as many triangles off the background as
\* idx_list has places equal to p: the middle one for one cursor, the two
\* outer ones for two, all three for three; a slot without a cursor has no
\* entry.
C19_CursorCountReadable ==
    (/\ InRangeCall("pointers", {1, 2, 3})
     /\ \A f \in DOMAIN PointerColors : PointerColors[f] # self.bg_color)
    => \A p \in DOMAIN self.containers_mob :
          LET cursors == CursorsAt(last.idx_list, p)
              stored == PointersColorsAt(last.pos)
          IN  IF cursors = {}
              THEN p \notin DOMAIN stored
              ELSE /\ p \in DOMAIN stored
                   /\ Cardinality(Lit(stored[p])) = Cardinality(cursors)
                   /\ Cardinality(cursors) = 1 => Lit(stored[p]) = {2}
                   /\ Cardinality(cursors) = 2 => Lit(stored[p]) = {1, 3}
                   /\ Cardinality(cursors) = 3 => Lit(stored[p]) = {1, 2, 3}

\* pointers([2, 0, 2], 1) on three values: two cursors on slot 2, one on
\* slot 0, none on slot 1
C19_Witness ==
    /\ InRangeCall("pointers", {3})
    /\ last.idx_list = <<2, 0, 2>>
    /\ last.pos = BOTTOM
    /\ Len(self.data) = 3
    /\ Lit(BottomPointersColors[2]) = {1, 3}
    /\ Lit(BottomPointersColors[0]) = {2}
    /\ 1 \notin DOMAIN BottomPointersColors
    /\ Lit(self.pointers_bottom[2]) = {1, 3}

\* the lines of the block as the caller numbers them: in ui/code_block.py
\* the pre-code lines come first, in algomanim.py only code lines have a
\* number
PrecodeCount == Cardinality(DOMAIN code_block.precode_mobs)
CodeLineNumber(k) == IF code_block.module = "ui.code_block" THEN k + PrecodeCount ELSE k

\* C20: after highlight(i) / highlight_line(i) the lines named in the call
\* have the highlight text colour and every other line of the block has the
\* regular text colour, whatever was highlighted before.
C20_CodeBlockHighlightExact ==
    last.op \in {"highlight", "highlight_line"} =>
        /\ \A k \in DOMAIN code_block.code_mobs :
              code_block.code_mobs[k] =
                  IF InTuple(CodeLineNumber(k), last.idx_list)
                  THEN TextColorHighlight ELSE TextColorRegular
        /\ \A k \in DOMAIN code_block.precode_mobs :
              code_block.precode_mobs[k] =
                  IF code_block.module = "ui.code_block" /\ InTuple(k, last.idx_list)
                  THEN TextColorHighlight ELSE TextColorRegular

\* the line numbers a caller can name: all lines in ui/code_block.py, the
\* code lines in algomanim.py
LineCount ==
    IF code_block.module = "ui.code_block"
    THEN PrecodeCount + Cardinality(DOMAIN code_block.code_mobs)
    ELSE Cardinality(DOMAIN code_block.code_mobs)

\* C21: a highlight call whose indices are all negative or past the last
\* line, on a block with any numbers of code and pre-code lines, raises
\* nothing and leaves no line in the highlight colour.
C21_CodeBlockHighlightNeverRaises ==
    (/\ last.op \in {"highlight", "highlight_line"}
     /\ last.idx_list # <<>>
     /\ \A x \in 1..Len(last.idx_list) : last.idx_list[x] \notin 0..(LineCount - 1))
    => /\ last.raised = NoError
       /\ \A k \in DOMAIN code_block.code_mobs :
             code_block.code_mobs[k] = TextColorRegular
       /\ \A k \in DOMAIN code_block.precode_mobs :
             code_block.precode_mobs[k] = TextColorRegular

\* the lines of the code that are neither blank nor comments and end with
\* "=x" for an x that is no key of commands_dict
UnknownCommandLines(code) ==
    {i \in 1..Len(CodeLines(code)) :
        LET l == StrStrip(CodeLines(code)[i])
        IN  /\ l # <<>>
            /\ l[1] # "#"
            /\ EndsWithCommand(l)
            /\ <<l[Len(l)]>> \notin CommandKeys}

\* C22: generate raises ValueError when a line of the code ends with an
\* inline command "=x" whose x is none of a, u, U, p, s.
C22_UnknownCommandRaisesValueError ==
    (generator.called /\ UnknownCommandLines(generator.code) # {})
        => generator.raised = ValueErrorName

\* C23: once an entered sound block has been left, whichever way, the scene
\* has seen, in this order: add_sound; for a negative offset a wait of
\* |offset|; the calls of the body; and one wait of `after`.
C23_SoundBlockOrdering ==
    sound.pc \in {"returned", "raised"}
        => LET log == sound.log
               n == Len(log)
               lead == IF sound.offset < 0 THEN 2 ELSE 1
           IN  /\ n >= lead + 1
               /\ log[1].call = "add_sound"
               /\ sound.offset < 0 => log[2] = SceneCall("wait", -sound.offset)
               /\ \A x \in (lead + 1)..(n - 1) : log[x].call = "play"
               /\ log[n] = SceneCall("wait", sound.after)

\* C24: in every state, whatever update_value calls came before, each slot
\* without an entry in the container dictionary shows the fill colour the
\* structure was constructed with.
C24_DefaultFillConstant ==
    \A p \in DOMAIN self.containers_mob :
        p \notin DOMAIN ContainersColors => self.containers_mob[p] = self.fill_color

\* C26: in every state with non-empty data, each slot shows its entry of the
\* container dictionary, or the fill colour of the structure when it has
\* none, and on each side the cursor of each slot shows its stored triple, or
\* the background colour when it has none.
C26_ViewMatchesStore ==
    Truthy(self.data)
        => /\ \A p \in DOMAIN self.containers_mob :
                self.containers_mob[p] =
                    IF p \in DOMAIN ContainersColors THEN ContainersColors[p]
                    ELSE self.fill_color
           /\ \A p \in DOMAIN self.pointers_top :
                self.pointers_top[p] =
                    IF p \in DOMAIN TopPointersColors THEN TopPointersColors[p]
                    ELSE <<self.bg_color, self.bg_color, self.bg_color>>
           /\ \A p \in DOMAIN self.pointers_bottom :
                self.pointers_bottom[p] =
                    IF p \in DOMAIN BottomPointersColors THEN BottomPointersColors[p]
                    ELSE <<self.bg_color, self.bg_color, self.bg_color>>

\* the idx_lists of one to three indices and the two sides
ValidLists == {l \in LifeLists : Len(l) \in MinArity..MaxArity}
Sides == {TOP, BOTTOM}

\* C25: while the data is empty, highlight_containers(idx_list) and
\* pointers(idx_list, pos) raise nothing, leave the dictionary they write
\* holding exactly the table's entries for the indices of idx_list, and
\* repaint no container and no cursor; an update_value to non-empty data
\* right after the call then shows each of these entries on its slot.
C25_IndexCallOnEmptyData ==
    ~Truthy(self.data) =>
        \A idx_list \in ValidLists :
            /\ LET r == highlight_containers(self, idx_list, heap)
                   Want(p) == TableColor(CursorsAt(idx_list, p))
               IN  /\ r.raised = NoError
                   /\ DOMAIN r.heap[r.inst.containers_colors] = Elements(idx_list)
                   /\ \A p \in Elements(idx_list) :
                          r.heap[r.inst.containers_colors][p] = Want(p)
                   /\ r.inst.containers_mob = self.containers_mob
                   /\ \A new_value \in Datas \ {<<>>} :
                          LET u == update_value(r.inst, new_value, FALSE, r.heap)
                          IN  \A p \in Elements(idx_list) \cap DOMAIN u.inst.containers_mob :
                                  u.inst.containers_mob[p] = Want(p)
            /\ \A pos \in Sides :
                   LET r == pointers(self, idx_list, pos, heap)
                       Dict(inst, h) == IF pos = TOP THEN h[inst.top_pointers_colors]
                                        ELSE h[inst.bottom_pointers_colors]
                       Mobs(inst) == IF pos = TOP THEN inst.pointers_top
                                     ELSE inst.pointers_bottom
                       Want(p) == TableTriple(CursorsAt(idx_list, p), self.bg_color)
                   IN  /\ r.raised = NoError
                       /\ DOMAIN Dict(r.inst, r.heap) = Elements(idx_list)
                       /\ \A p \in Elements(idx_list) : Dict(r.inst, r.heap)[p] = Want(p)
                       /\ r.inst.pointers_top = self.pointers_top
                       /\ r.inst.pointers_bottom = self.pointers_bottom
                       /\ \A new_value \in Datas \ {<<>>} :
                              LET u == update_value(r.inst, new_value, FALSE, r.heap)
                              IN  \A p \in Elements(idx_list) \cap DOMAIN Mobs(u.inst) :
                                      Mobs(u.inst)[p] = Want(p)

\* C27: update_value with empty new data on a structure whose data is empty
\* changes nothing: the data, the three dictionaries and everything painted
\* stay as they were, no new instance is built, and the scene gets no call.
C27_EmptyToEmptyIsNoOp ==
    [][(last'.op = "update_value" /\ ~Truthy(self.data) /\ ~Truthy(self'.data))
          => /\ self' = self
             /\ heap' = heap
             /\ new_group' = <<>>
             /\ last'.scene = <<>>]_vars

\* update_value([]) has returned on empty data that has an entry in store
C27_Witness ==
    /\ last.op = "update_value"
    /\ last.old_len = 0
    /\ ~Truthy(self.data)
    /\ ContainersColors # EmptyDict

\* C28: when the caller changes the list it passed to Array(...) or to
\* update_value, the data of the structure stays as it was, and in every
\* state with non-empty data there are as many slots as items of the data.
C28_BackingDataPrivate ==
    [][/\ last'.op = "caller" => self'.data = self.data
       /\ Truthy(self.data) => NumContainers(self) = Len(self.data)
       /\ Truthy(self'.data) => NumContainers(self') = Len(self'.data)]_vars

\* C29: after update_value the data of a LinkedList is the list of the
\* values of the nodes it was given, as it is after construction, and a
\* highlight_containers_with_value that follows raises nothing and marks
\* exactly the positions of that list that hold the value asked for.
C29_LinkedListDataIsList ==
    /\ linked_list.op \in {"__init__", "update_value"}
           => linked_list.inst.data = List(linked_list.value)
    /\ linked_list.op = "highlight_containers_with_value"
           => /\ linked_list.raised = NoError
              /\ DOMAIN linked_list.inst.containers_colors =
                     {p \in 0..(Len(linked_list.value) - 1) :
                         linked_list.value[p + 1] = linked_list.val}

\* C30: in every state of a code block, a line has a recorded background
\* rectangle exactly when it is in the highlight colour, a highlighted line
\* has one rectangle in the group, and a line that is not highlighted has
\* none.
C30_BackgroundRectangles ==
    /\ \A k \in DOMAIN code_block.code_mobs :
           LET lit == code_block.code_mobs[k] = TextColorHighlight
           IN  /\ code_block.bg_rects_code[k] <=> lit
               /\ code_block.group_code[k] = IF lit THEN 1 ELSE 0
    /\ \A k \in DOMAIN code_block.precode_mobs :
           LET lit == code_block.precode_mobs[k] = TextColorHighlight
               recorded == /\ k \in DOMAIN code_block.bg_rects_precode
                           /\ code_block.bg_rects_precode[k]
           IN  /\ recorded <=> lit
               /\ code_block.group_precode[k] = IF lit THEN 1 ELSE 0

====
